---- MODULE Spec2Model ----
(***************************************************************************)
(* A model of uxt's action protocol and execution engine: the response     *)
(* parser, the edit and run handlers, the outline store and the main loop  *)
(* of src/src/cli.py, with the executors of src/src/editor.py.             *)
(*                                                                         *)
(* Text is modelled as a sequence of one-character strings, so that        *)
(* str.strip, str.splitlines, str.lower, str.startswith, the "in" test on  *)
(* strings and re.sub are computed character by character, as Python       *)
(* computes them.                                                          *)
(*                                                                         *)
(* Spec is the main loop over a fixed set of responses; StepSpec and       *)
(* FenceSpec are one iteration over every response made of a pool of       *)
(* lines; ScanSpec is the loop's scan of the code files with its cache,    *)
(* beside programs that write, touch, remove and create a code file;       *)
(* LoadSpec is the loop started from every kind of stored outline;         *)
(* SpinSpec is the loop step by step around the scan, with the spinner     *)
(* threads, and SpinFairSpec is SpinSpec under a fair scheduler.           *)
(***************************************************************************)
EXTENDS Integers, Sequences, FiniteSets, TLC

VARIABLES
    pc,            \* position of the main thread in main_loop
    iter,          \* number of loop iterations started
    fs,            \* the filesystem: path |-> content, for the paths that exist
    outline_root,  \* the in-memory outline: the tree of OutlineNodes
    tasks_file,    \* the persisted outline at DATA_PATH
    response,      \* the model's raw response of this iteration
    action,        \* the (action_type, details) pair returned by parse_response
    old_content,   \* local of handle_edit: the content read for the preview
    new_content,   \* local of handle_edit: the sanitized content
    result,        \* the handler's return value of this iteration
    trace,         \* the I/O the iteration performed, in order
    tree,          \* the code files scan_codebase visits: path |-> content and mtime
    cache,         \* main_loop's CodebaseCache: its cache and mtimes dicts
    codebase,      \* the file_map the last scan returned
    scan_log,      \* the last scan: the paths read, those whose read or stat failed,
                   \* the hits, the paths written or removed while they were read
    last_tree,     \* the code files as they were when the last scan ended
    spinners       \* the spinner threads started and not joined, oldest first: the
                   \* stop event of each and its position in show_spinner

scan_vars == <<tree, cache, codebase, scan_log, last_tree, spinners>>

vars == <<pc, iter, fs, outline_root, tasks_file, response, action, old_content, new_content,
         result, trace, scan_vars>>

(***************************************************************************)
(* Python's str operations                                                 *)
(***************************************************************************)

UpperChars == <<"A","B","C","D","E","F","G","H","I","J","K","L","M",
                "N","O","P","Q","R","S","T","U","V","W","X","Y","Z">>

LowerChars == <<"a","b","c","d","e","f","g","h","i","j","k","l","m",
                "n","o","p","q","r","s","t","u","v","w","x","y","z">>

\* the characters str.strip() removes
Whitespace == {" ", "\t", "\n", "\r", "\f"}

\* the characters str.splitlines() breaks a line at
LineBreaks == {"\n", "\r", "\f"}

\* [a-zA-Z] of the fence pattern
IsAlpha(c) == \E i \in 1..26 : c = UpperChars[i] \/ c = LowerChars[i]

LowerChar(c) ==
    IF \E i \in 1..26 : c = UpperChars[i]
    THEN LowerChars[CHOOSE i \in 1..26 : c = UpperChars[i]]
    ELSE c

\* s.lower()
Lower(s) == [i \in 1..Len(s) |-> LowerChar(s[i])]

\* s[n:]
Drop(s, n) == IF n >= Len(s) THEN <<>> ELSE SubSeq(s, n + 1, Len(s))

\* s.startswith(p)
StartsWith(s, p) == Len(s) >= Len(p) /\ SubSeq(s, 1, Len(p)) = p

\* p in s
Contains(s, p) ==
    \E i \in 0..(Len(s) - Len(p)) : SubSeq(s, i + 1, i + Len(p)) = p

\* s.strip(chars): the longest prefix and suffix made of chars are removed
StripChars(s, chars) ==
    LET keep == {i \in 1..Len(s) : s[i] \notin chars}
    IN  IF keep = {} THEN <<>>
        ELSE SubSeq(s, CHOOSE i \in keep : \A j \in keep : i <= j,
                       CHOOSE i \in keep : \A j \in keep : i >= j)

\* s.strip()
Strip(s) == StripChars(s, Whitespace)

\* sep.join(lines)
RECURSIVE Join(_, _)
Join(lines, sep) ==
    IF lines = <<>> THEN <<>>
    ELSE IF Len(lines) = 1 THEN lines[1]
    ELSE lines[1] \o sep \o Join(Tail(lines), sep)

\* s.splitlines(): the line break is not kept, "\r\n" is one break, and a
\* break at the very end opens no further line
RECURSIVE SplitFrom(_, _, _)
SplitFrom(s, i, cur) ==
    IF i > Len(s) THEN (IF cur = <<>> THEN <<>> ELSE <<cur>>)
    ELSE IF s[i] \in LineBreaks
         THEN LET next == IF s[i] = "\r" /\ i < Len(s) /\ s[i + 1] = "\n"
                          THEN i + 2 ELSE i + 1
              IN  <<cur>> \o SplitFrom(s, next, <<>>)
         ELSE SplitFrom(s, i + 1, Append(cur, s[i]))

SplitLines(s) == SplitFrom(s, 1, <<>>)

(***************************************************************************)
(* Text constants of the source                                            *)
(***************************************************************************)

EditMarker == <<"e","d","i","t",":">>

RunMarker == <<"r","u","n",":">>

OutlineMarker == <<"o","u","t","l","i","n","e",":">>

TaskPrefix == <<"-"," ">>

\* the backquote character (U+0060), which a TLA+ string cannot hold
Backquote == "BACKQUOTE"

Fence == <<Backquote, Backquote, Backquote>>

BakSuffix == <<".","b","a","k">>

DotDot == <<".",".">>

Slash == <<"/">>

NL == <<"\n">>

RmRf == <<"r","m"," ","-","r","f">>

dangerous_patterns ==
    { RmRf,
      <<"d","e","l"," ","/","s">>,
      <<"f","o","r","m","a","t">>,
      <<"m","k","f","s">>,
      <<"d","d"," ","i","f","=">> }

\* "Root Task: Start coding session"
DefaultRootTitle ==
    <<"R","o","o","t"," ","T","a","s","k",":"," ">> \o
    <<"S","t","a","r","t"," ","c","o","d","i","n","g"," ","s","e","s","s","i","o","n">>

(***************************************************************************)
(* editor.py                                                               *)
(***************************************************************************)

\* re: "^" under re.MULTILINE
AtLineStart(s, i) == i = 1 \/ s[i - 1] = "\n"

\* re: "$" under re.MULTILINE, tested at the position after index i
AtLineEnd(s, i) == i = Len(s) \/ s[i + 1] = "\n"

HasFenceAt(s, i) == i + 2 <= Len(s) /\ SubSeq(s, i, i + 2) = Fence

\* the index of the first character at or after i that [a-zA-Z]* does not take
RECURSIVE SkipAlpha(_, _)
SkipAlpha(s, i) ==
    IF i <= Len(s) /\ IsAlpha(s[i]) THEN SkipAlpha(s, i + 1) ELSE i

\* the length of the match of ^(3 backquotes)[a-zA-Z]*\n at i, or 0
OpenFenceMatch(s, i) ==
    IF AtLineStart(s, i) /\ HasFenceAt(s, i)
    THEN LET j == SkipAlpha(s, i + 3)
         IN  IF j <= Len(s) /\ s[j] = "\n" THEN j - i + 1 ELSE 0
    ELSE 0

\* the length of the match of (3 backquotes)$ at i, or 0
CloseFenceMatch(s, i) ==
    IF HasFenceAt(s, i) /\ AtLineEnd(s, i + 2) THEN 3 ELSE 0

\* re.sub(pattern, "", content, flags=re.MULTILINE): every match is removed,
\* the first alternative being tried first at each position
RECURSIVE SubFences(_, _)
SubFences(s, i) ==
    IF i > Len(s) THEN <<>>
    ELSE IF OpenFenceMatch(s, i) > 0 THEN SubFences(s, i + OpenFenceMatch(s, i))
    ELSE IF CloseFenceMatch(s, i) > 0 THEN SubFences(s, i + 3)
    ELSE <<s[i]>> \o SubFences(s, i + 1)

sanitize_code_content(content) == Strip(SubFences(content, 1))

BackupOutcomes == {"ok", "error"}

WriteOutcomes == {"ok", "open_error", "write_error"}

\* a copy that keeps the backup that is already there
backup_file_keep_existing(f, filepath, bk) ==
    IF bk = "ok" /\ (filepath \o BakSuffix) \notin DOMAIN f
    THEN ((filepath \o BakSuffix) :> f[filepath]) @@ f ELSE f

\* shutil.copy2(filepath, filepath + ".bak"); an exception is printed and swallowed
backup_file(f, filepath, bk) ==
    IF bk = "ok" THEN ((filepath \o BakSuffix) :> f[filepath]) @@ f ELSE f

\* open(filepath, "w") truncates the file; f.write fills it
write_file(f, filepath, content, wr) ==
    CASE wr = "ok"          -> (filepath :> content) @@ f
      [] wr = "write_error" -> (filepath :> <<>>) @@ f
      [] OTHER              -> f

\* apply_edit with the copy taken after the write instead of before it
apply_edit_write_first(f, filepath, content, bk, wr) ==
    IF filepath \notin DOMAIN f
    THEN [fs |-> f, ret |-> "False", io |-> <<"missing">>]
    ELSE [fs  |-> backup_file(write_file(f, filepath, content, wr), filepath, bk),
          ret |-> IF wr = "ok" THEN "True" ELSE "False",
          io  |-> << IF bk = "ok" THEN "backup_ok" ELSE "backup_error",
                     CASE wr = "ok"          -> "write_ok"
                       [] wr = "write_error" -> "write_error"
                       [] OTHER              -> "write_open_error" >>]

\* apply_edit giving up when the copy fails
apply_edit_backup_required(f, filepath, content, bk, wr) ==
    IF filepath \notin DOMAIN f
    THEN [fs |-> f, ret |-> "False", io |-> <<"missing">>]
    ELSE IF bk # "ok"
    THEN [fs |-> f, ret |-> "False", io |-> <<"backup_error">>]
    ELSE [fs  |-> write_file(backup_file(f, filepath, bk), filepath, content, wr),
          ret |-> IF wr = "ok" THEN "True" ELSE "False",
          io  |-> << "backup_ok",
                     CASE wr = "ok"          -> "write_ok"
                       [] wr = "write_error" -> "write_error"
                       [] OTHER              -> "write_open_error" >>]

\* apply_edit: the filesystem it leaves, its return value, and its I/O in order
apply_edit(f, filepath, content, bk, wr) ==
    IF filepath \notin DOMAIN f
    THEN [fs |-> f, ret |-> "False", io |-> <<"missing">>]
    ELSE [fs  |-> write_file(backup_file(f, filepath, bk), filepath, content, wr),
          ret |-> IF wr = "ok" THEN "True" ELSE "False",
          io  |-> << IF bk = "ok" THEN "backup_ok" ELSE "backup_error",
                     CASE wr = "ok"          -> "write_ok"
                       [] wr = "write_error" -> "write_error"
                       [] OTHER              -> "write_open_error" >>]

ShellOutcomes == {"exit_0", "exit_nonzero", "launch_error"}

\* run_shell_command: subprocess.run(..., check=True) returns on exit code 0,
\* raises CalledProcessError on any other exit code, which is caught, and
\* raises OSError or ValueError when the shell cannot be started, which is not
run_shell_command(outcome) ==
    CASE outcome = "exit_0"       -> "True"
      [] outcome = "exit_nonzero" -> "False"
      [] OTHER                    -> "raised"

(***************************************************************************)
(* cli.py: CodebaseCache and scan_codebase                                 *)
(***************************************************************************)

EmptyMap == [p \in {} |-> <<>>]

\* CodebaseCache(): both dicts empty
CodebaseCache == [cache |-> EmptyMap, mtimes |-> EmptyMap]

\* t without the files outside S
Restrict(t, S) == [p \in DOMAIN t \cap S |-> t[p]]

\* is_stale looking at whether an mtime is stored, not at which one
is_stale_without_mtime_test(c, t, filepath) ==
    IF filepath \notin DOMAIN t
    THEN TRUE
    ELSE filepath \notin DOMAIN c.mtimes

\* CodebaseCache.is_stale, t the files os.path.getmtime can stat (OSError for
\* any other path): no mtime stored, or another one than the file's
is_stale(c, t, filepath) ==
    IF filepath \notin DOMAIN t
    THEN TRUE
    ELSE filepath \notin DOMAIN c.mtimes \/ c.mtimes[filepath] # t[filepath].mtime

\* the hit test that takes an empty content for a miss: "if cached_content:"
cache_hit_truthy(c, t, filepath) ==
    /\ ~is_stale(c, t, filepath)
    /\ filepath \in DOMAIN c.cache
    /\ c.cache[filepath] # <<>>

\* "cached_content = cache.get(filepath); if cached_content is not None"
cache_hit(c, t, filepath) ==
    ~is_stale(c, t, filepath) /\ filepath \in DOMAIN c.cache

\* what the file system does to one scan: nostat, the paths whose getmtime in
\* is_stale raises; failed, the paths whose read_text raises; wrote, the
\* versions written between the read_text of a path and the getmtime of
\* CodebaseCache.update; gone, the paths removed between these two calls
NoScanIO == [nostat |-> {}, failed |-> {}, wrote |-> EmptyMap, gone |-> {}]

\* scan_codebase(cache=c) over the files t under the events io: the file_map
\* returned, the cache left, the files left, and what the scan did
scan_codebase(c, t, io) ==
    LET hits    == {p \in DOMAIN t : cache_hit(c, Restrict(t, DOMAIN t \ io.nostat), p)}
        reads   == DOMAIN t \ hits
        fresh   == reads \ io.failed
        late    == DOMAIN io.wrote \cap fresh
        gone    == (io.gone \cap fresh) \ late
        stamped == fresh \ gone
    IN  [file_map |-> [p \in hits \cup fresh |->
                         IF p \in hits THEN c.cache[p] ELSE t[p].content],
         cache    |-> [cache  |-> [p \in DOMAIN c.cache \cup fresh |->
                                     IF p \in fresh THEN t[p].content ELSE c.cache[p]],
                       mtimes |-> [p \in DOMAIN c.mtimes \cup stamped |->
                                     IF p \in late THEN io.wrote[p].mtime
                                     ELSE IF p \in stamped THEN t[p].mtime
                                     ELSE c.mtimes[p]]],
         tree     |-> [p \in DOMAIN t \ gone |->
                         IF p \in late THEN io.wrote[p] ELSE t[p]],
         log      |-> [read |-> reads, failed |-> io.failed \cap reads, hits |-> hits,
                       nostat |-> io.nostat \cap DOMAIN t, raced |-> late \cup gone]]

(***************************************************************************)
(* cli.py: ResponseHandler                                                 *)
(***************************************************************************)

\* next((i for i, l in enumerate(lines) if l.lower().startswith(marker)), None),
\* 1-based, 0 for None
FirstIndex(lines, marker) ==
    LET hits == {i \in 1..Len(lines) : StartsWith(Lower(lines[i]), marker)}
    IN  IF hits = {} THEN 0 ELSE CHOOSE i \in hits : \A j \in hits : i <= j

\* [x for x in lines if keep(x)]
RECURSIVE TaskLines(_)
TaskLines(lines) ==
    IF lines = <<>> THEN <<>>
    ELSE IF StartsWith(lines[1], TaskPrefix)
         THEN <<Strip(StripChars(lines[1], {"-", " "}))>> \o TaskLines(Tail(lines))
         ELSE TaskLines(Tail(lines))

NoneAction == [type |-> "none"]

\* the parser taking "- " lines for an outline without an outline: line
parse_response_tasks_alone(resp) ==
    LET lines         == SplitLines(Strip(resp))
        edit_index    == FirstIndex(lines, EditMarker)
        run_index     == FirstIndex(lines, RunMarker)
        outline_index == FirstIndex(lines, OutlineMarker)
    IN  IF outline_index # 0 \/ TaskLines(lines) # <<>>
        THEN [type |-> "outline", tasks |-> TaskLines(lines)]
        ELSE IF edit_index # 0
        THEN [type     |-> "edit",
              filepath |-> Strip(Drop(lines[edit_index], 5)),
              content  |-> Join(Drop(lines, edit_index), NL)]
        ELSE IF run_index # 0
        THEN [type |-> "run", command |-> Strip(Drop(lines[run_index], 4))]
        ELSE NoneAction

\* the parser collecting the tasks from the lines after the outline: line only
parse_response_tasks_after_marker(resp) ==
    LET lines         == SplitLines(Strip(resp))
        edit_index    == FirstIndex(lines, EditMarker)
        run_index     == FirstIndex(lines, RunMarker)
        outline_index == FirstIndex(lines, OutlineMarker)
    IN  IF outline_index # 0
        THEN [type |-> "outline", tasks |-> TaskLines(Drop(lines, outline_index))]
        ELSE IF edit_index # 0
        THEN [type     |-> "edit",
              filepath |-> Strip(Drop(lines[edit_index], 5)),
              content  |-> Join(Drop(lines, edit_index), NL)]
        ELSE IF run_index # 0
        THEN [type |-> "run", command |-> Strip(Drop(lines[run_index], 4))]
        ELSE NoneAction

\* the parser testing edit: before outline:
parse_response_edit_first(resp) ==
    LET lines         == SplitLines(Strip(resp))
        edit_index    == FirstIndex(lines, EditMarker)
        run_index     == FirstIndex(lines, RunMarker)
        outline_index == FirstIndex(lines, OutlineMarker)
    IN  IF edit_index # 0
        THEN [type     |-> "edit",
              filepath |-> Strip(Drop(lines[edit_index], 5)),
              content  |-> Join(Drop(lines, edit_index), NL)]
        ELSE IF outline_index # 0
        THEN [type |-> "outline", tasks |-> TaskLines(lines)]
        ELSE IF run_index # 0
        THEN [type |-> "run", command |-> Strip(Drop(lines[run_index], 4))]
        ELSE NoneAction

\* the parser taking the content from the marker line on: lines[edit_index:]
parse_response_from_marker(resp) ==
    LET lines         == SplitLines(Strip(resp))
        edit_index    == FirstIndex(lines, EditMarker)
        run_index     == FirstIndex(lines, RunMarker)
        outline_index == FirstIndex(lines, OutlineMarker)
    IN  IF outline_index # 0
        THEN [type |-> "outline", tasks |-> TaskLines(lines)]
        ELSE IF edit_index # 0
        THEN [type     |-> "edit",
              filepath |-> Strip(Drop(lines[edit_index], 5)),
              content  |-> Join(Drop(lines, edit_index - 1), NL)]
        ELSE IF run_index # 0
        THEN [type |-> "run", command |-> Strip(Drop(lines[run_index], 4))]
        ELSE NoneAction

parse_response(resp) ==
    LET lines         == SplitLines(Strip(resp))
        edit_index    == FirstIndex(lines, EditMarker)
        run_index     == FirstIndex(lines, RunMarker)
        outline_index == FirstIndex(lines, OutlineMarker)
    IN  IF outline_index # 0
        THEN [type |-> "outline", tasks |-> TaskLines(lines)]
        ELSE IF edit_index # 0
        THEN [type     |-> "edit",
              filepath |-> Strip(Drop(lines[edit_index], 5)),
              content  |-> Join(Drop(lines, edit_index), NL)]
        ELSE IF run_index # 0
        THEN [type |-> "run", command |-> Strip(Drop(lines[run_index], 4))]
        ELSE NoneAction

\* the validation without its test for ".."
InvalidPath_no_traversal(filepath) ==
    filepath = <<>> \/ StartsWith(filepath, Slash)

\* handle_edit's path validation
InvalidPath(filepath) ==
    filepath = <<>> \/ StartsWith(filepath, Slash) \/ Contains(filepath, DotDot)

\* the screen without command.lower()
IsDangerous_case_sensitive(command) ==
    \E pattern \in dangerous_patterns : Contains(command, pattern)

\* handle_run's screen: any(pattern in command.lower() for pattern in dangerous_patterns)
IsDangerous(command) ==
    \E pattern \in dangerous_patterns : Contains(Lower(command), pattern)

(***************************************************************************)
(* outline.py                                                              *)
(***************************************************************************)

\* OutlineNode(title): content "" and no children
OutlineNode(title) == [title |-> title, content |-> <<>>, children |-> <<>>]

\* the new nodes put before the children the node has
add_children_in_front(node, tasks) ==
    [node EXCEPT !.children = [i \in 1..Len(tasks) |-> OutlineNode(tasks[i])] \o @]

\* add_child, once for each task in order
add_children(node, tasks) ==
    [node EXCEPT !.children = @ \o [i \in 1..Len(tasks) |-> OutlineNode(tasks[i])]]

\* to_dict writing the children without their own children
to_dict_flat(node) ==
    [title    |-> node.title,
     content  |-> node.content,
     children |-> [i \in 1..Len(node.children) |->
                     [title    |-> node.children[i].title,
                      content  |-> node.children[i].content,
                      children |-> <<>>]]]

RECURSIVE to_dict(_)
to_dict(node) ==
    [title    |-> node.title,
     content  |-> node.content,
     children |-> [i \in 1..Len(node.children) |-> to_dict(node.children[i])]]

\* data.get("children", [])
ChildrenOf(data) == IF "children" \in DOMAIN data THEN data.children ELSE <<>>

\* from_dict raises KeyError on a dict without "title", at any level
RECURSIVE FromDictRaises(_)
FromDictRaises(data) ==
    \/ "title" \notin DOMAIN data
    \/ \E i \in 1..Len(ChildrenOf(data)) : FromDictRaises(ChildrenOf(data)[i])

RECURSIVE from_dict(_)
from_dict(data) ==
    [title    |-> data.title,
     content  |-> IF "content" \in DOMAIN data THEN data.content ELSE <<>>,
     children |-> [i \in 1..Len(ChildrenOf(data)) |-> from_dict(ChildrenOf(data)[i])]]

\* the document at DATA_PATH: absent, not JSON, or a JSON object
MissingFile == [kind |-> "missing"]

CorruptFile == [kind |-> "corrupt"]

JsonFile(data) == [kind |-> "json", data |-> data]

\* a file that cannot be opened for reading
UnreadableFile == [kind |-> "unreadable"]

\* valid JSON that is not an object (a list, a number, null): data.get raises
NonObjectFile == [kind |-> "json_other"]

\* a JSON number and a JSON null where a text is expected; the tokens stand
\* for values that no str equals
JsonNumber == <<"JSON_NUMBER">>

JsonNull == <<"JSON_NULL">>

IsStr(value) == value \notin {JsonNumber, JsonNull}

\* print_outline raises TypeError at prefix + "- " + node.title when a title
\* of the tree is not a str
RECURSIVE PrintOutlineRaises(_)
PrintOutlineRaises(node) ==
    \/ ~IsStr(node.title)
    \/ \E i \in 1..Len(node.children) : PrintOutlineRaises(node.children[i])

SaveOutcomes == {"ok", "open_error", "write_error"}

\* save_outline_to_file: open(filepath, "w") truncates, json.dump fills; what
\* is at filepath afterwards
save_outline_to_file(root, file, sv) ==
    CASE sv = "ok"          -> JsonFile(to_dict(root))
      [] sv = "write_error" -> CorruptFile
      [] OTHER              -> file

load_outline_from_file(file) ==
    IF file.kind = "json" /\ ~FromDictRaises(file.data)
    THEN from_dict(file.data)
    ELSE OutlineNode(DefaultRootTitle)

(***************************************************************************)
(* Inputs: the bounds, the initial files, and the responses of the model   *)
(***************************************************************************)

\* iterations of the main loop
MaxIter == 3

\* lines of a response in StepResponses
MaxLines == 3

\* characters around "rm -rf" in RunResponses
MaxPad == 1

\* lines of content in FenceResponses
MaxFenceLines == 3

\* the modification times a code file can have
MaxMtime == 2

PathA == <<"a">>

InitialFs == PathA :> <<"o">>

InitialTasksFiles ==
    { MissingFile,
      JsonFile([title |-> <<"r">>, content |-> <<"c">>,
                children |-> << [title |-> <<"p">>,
                                 children |-> << [title |-> <<"q">>] >>] >>]) }

\* "../../etc/passwd"
PasswdPath ==
    <<".",".","/",".",".","/">> \o <<"e","t","c","/","p","a","s","s","w","d">>

\* 'Edit: a'
L_EditA == <<"E","d","i","t",":"," ","a">>

\* 'EDIT: b'
L_EditB == <<"E","D","I","T",":"," ","b">>

\* 'edit: ../../etc/passwd'
L_EditUp == <<"e","d","i","t",":"," ">> \o PasswdPath

\* 'Edit: /a'
L_EditAbs == <<"E","d","i","t",":"," ","/","a">>

\* 'Edit:'
L_EditEmpty == <<"E","d","i","t",":">>

\* 'Run: ls'
L_RunLs == <<"R","u","n",":"," ","l","s">>

\* 'run: Rm -RF a'
L_RunRm == <<"r","u","n",":"," ","R","m"," ","-","R","F"," ","a">>

\* 'Outline:'
L_Outline == <<"O","u","t","l","i","n","e",":">>

\* '- t'
L_TaskT == <<"-"," ","t">>

\* '- u'
L_TaskU == <<"-"," ","u">>

\* '- -'
L_Dash == <<"-"," ","-">>

\* 'h'
L_H == <<"h">>

\* 'w'
L_W == <<"w">>

\* ' w '
L_WSp == <<" ","w"," ">>

\* ''
L_Blank == <<>>

\* ' edit: a'
L_Indented == <<" ","e","d","i","t",":"," ","a">>

\* '(backquote)(backquote)(backquote)py'
L_FencePy == <<Backquote,Backquote,Backquote,"p","y">>

\* '(backquote)(backquote)(backquote)'
L_Fence == <<Backquote,Backquote,Backquote>>

\* the documents DATA_PATH can hold when the program starts
LoadDocuments ==
    InitialTasksFiles \cup
    { CorruptFile, UnreadableFile, NonObjectFile,
      JsonFile([children |-> <<>>]),
      JsonFile([title |-> <<"r">>, children |-> << [content |-> <<"c">>] >>]),
      JsonFile([title |-> JsonNumber]),
      JsonFile([title |-> <<"r">>, children |-> << [title |-> JsonNull] >>]),
      JsonFile([title |-> <<"r">>, content |-> JsonNumber]),
      JsonFile([title |-> JsonNull, children |-> <<>>]),
      JsonFile([title |-> <<"r">>]),
      JsonFile([title |-> <<>>, content |-> <<>>, children |-> <<>>]),
      JsonFile([title |-> <<"r">>,
                children |-> << [title |-> <<"p">>], [title |-> <<"q">>] >>]) }

\* ' h'
L_HInd == <<" ","h">>

\* OllamaClient.chat when the request fails with the exception text e:
\* f"[ERROR] Ollama request failed: {e}"
chat_error(e) ==
    <<"[","E","R","R","O","R","]"," ","O","l","l","a","m","a"," ">> \o
    <<"r","e","q","u","e","s","t"," ","f","a","i","l","e","d",":"," ">> \o e

\* the exception text "x"
L_ChatError == chat_error(<<"x">>)

\* the exception text "h\nRun: ls"
L_ChatErrorRun == chat_error(Join(<<L_H, L_RunLs>>, NL))

\* the responses the model client returns in the main loop
ModelResponses ==
    { L_ChatError,
      L_ChatErrorRun,
      Join(<<L_EditA, L_H, L_W>>, NL),
      Join(<<L_EditA, L_FencePy, L_H, L_Fence>>, NL),
      Join(<<L_EditB, L_W>>, NL),
      Join(<<L_EditUp, L_H>>, NL),
      Join(<<L_EditAbs, L_H>>, NL),
      Join(<<L_EditEmpty, L_H>>, NL),
      L_RunLs,
      L_RunRm,
      Join(<<L_Outline, L_TaskT, L_TaskU>>, NL),
      L_H,
      Join(<<L_TaskT, L_H>>, NL),
      Join(<<L_RunLs, L_EditA, L_H>>, NL),
      Join(<<L_TaskT, L_EditA, L_Outline, L_Dash>>, NL),
      Join(<<L_H, L_Indented, L_W>>, NL) }

SeqsUpTo(S, lo, hi) == UNION {[1..k -> S] : k \in lo..hi}

UpperChar(c) ==
    IF \E i \in 1..26 : c = LowerChars[i]
    THEN UpperChars[CHOOSE i \in 1..26 : c = LowerChars[i]]
    ELSE c

\* s in every casing of its letters
CaseVariants(s) ==
    { [i \in 1..Len(s) |-> IF i \in U THEN UpperChar(s[i]) ELSE s[i]] :
        U \in SUBSET {i \in 1..Len(s) : IsAlpha(s[i])} }

LinePool ==
    { L_EditA, L_EditUp, L_RunLs, L_Outline, L_TaskT,
      L_H, L_WSp, L_Blank, L_Indented }

PadChars == {"x", " "}

\* a run: line whose command holds "rm -rf" in some casing inside some text
RunResponses ==
    { <<"R","u","n",":"," ">> \o pre \o v \o post :
        pre \in SeqsUpTo(PadChars, 0, MaxPad),
        post \in SeqsUpTo(PadChars, 0, MaxPad),
        v \in CaseVariants(RmRf) }

\* the responses of the one-iteration specification
StepResponses ==
    {Join(ls, NL) : ls \in SeqsUpTo(LinePool, 1, MaxLines)} \cup RunResponses

FencePool == {L_FencePy, L_Fence, L_H, L_HInd, L_Blank}

\* an edit of the file a whose content is made of fence lines and code lines
FenceResponses ==
    {Join(<<L_EditA>> \o ls, NL) : ls \in SeqsUpTo(FencePool, 1, MaxFenceLines)}

\* the code files of the working directory in the scan specification
ScanPaths == {"x.py", "y.py"}

FileContents == {<<>>, <<"c">>}

Mtimes == 1..MaxMtime

\* a file as the scan sees it
Versions == [content : FileContents, mtime : Mtimes]

\* the code files that other programs write, touch and remove, and whose
\* stat and read can fail; the other code files are left alone
Volatile == {"x.py"}

\* the events that can meet a scan of the files t with the cache c: any
\* combination of a failing stat, a failing read, and a write or a removal
\* between read_text and CodebaseCache.update's getmtime
ScanIO(c, t) ==
    LET Writes(S) == {w \in [S -> Versions] : \A p \in S : w[p] # t[p]}
        Events(N) ==
            LET reads == {p \in DOMAIN t : ~cache_hit(c, Restrict(t, DOMAIN t \ N), p)}
                       \cap Volatile
            IN  UNION {UNION {UNION {
                    {[nostat |-> N, failed |-> F, wrote |-> w, gone |-> G] : w \in Writes(S)}
                    : S \in SUBSET ((reads \ F) \ G)}
                    : G \in SUBSET (reads \ F)}
                    : F \in SUBSET reads}
    IN  UNION {Events(N) : N \in SUBSET (DOMAIN t \cap Volatile)}

NoScanLog == [read |-> {}, failed |-> {}, hits |-> {}, nostat |-> {}, raced |-> {}]

\* x.py is empty
InitialTree ==
    [p \in ScanPaths |->
        [content |-> IF p = "x.py" THEN <<>> ELSE <<"c">>, mtime |-> 1]]

(***************************************************************************)
(* cli.py: main_loop and the handlers it dispatches to                     *)
(***************************************************************************)

Init ==
    /\ pc = "loop"
    /\ iter = 0
    /\ fs = InitialFs
    /\ tasks_file \in InitialTasksFiles
    /\ outline_root = load_outline_from_file(tasks_file)
    /\ response = <<>>
    /\ action = NoneAction
    /\ old_content = <<>>
    /\ new_content = <<>>
    /\ result = "none"
    /\ trace = <<>>
    /\ tree = EmptyMap
    /\ cache = CodebaseCache
    /\ codebase = EmptyMap
    /\ scan_log = NoScanLog
    /\ last_tree = tree
    /\ spinners = <<>>

\* the top of "while True": the locals of the previous iteration are gone
\* codebase = scan_codebase(cache=cache); a read that raises is skipped
\* the scan given a new CodebaseCache each time, which main_loop then keeps
ScanCodebase_with_new_cache ==
    \E io \in ScanIO(CodebaseCache, tree) :
       LET r == scan_codebase(CodebaseCache, tree, io)
       IN  /\ codebase' = r.file_map
           /\ cache' = r.cache
           /\ scan_log' = r.log
           /\ tree' = r.tree
           /\ last_tree' = r.tree
           /\ UNCHANGED spinners

\* the spinner thread, stop_spinner.set() and spinner_thread.join() around
\* codebase = scan_codebase(cache=cache), enable_caching being on as it is by
\* default, under any events of the file system; a scan that returns leaves
\* no spinner thread behind
ScanCodebase ==
    \E io \in ScanIO(cache, tree) :
       LET r == scan_codebase(cache, tree, io)
       IN  /\ codebase' = r.file_map
           /\ cache' = r.cache
           /\ scan_log' = r.log
           /\ tree' = r.tree
           /\ last_tree' = r.tree
           /\ UNCHANGED spinners

NewIteration ==
    /\ pc = "loop"
    /\ iter < MaxIter
    /\ ~PrintOutlineRaises(outline_root)
    /\ iter' = iter + 1
    /\ ScanCodebase
    /\ response' = <<>>
    /\ action' = NoneAction
    /\ old_content' = <<>>
    /\ new_content' = <<>>
    /\ result' = "none"

\* get_user_input returns "" (an empty line, help, clear, config, Ctrl-C): continue
UserEmpty ==
    /\ NewIteration
    /\ pc' = "loop"
    /\ trace' = <<>>
    /\ UNCHANGED <<fs, outline_root, tasks_file>>

\* the loop left whether the save succeeded or raised
quit_target_break_always(sv) == "done"

\* "save_outline_to_file(...); print('Goodbye!'); break": the break is reached
\* when the save returns, and "except Exception: continue" when it raises
quit_target(sv) == IF sv = "ok" THEN "done" ELSE "loop"

\* quit, exit or q: the outline is saved, then break; an exception of the save
\* goes to "except Exception: continue"
UserQuit ==
    /\ NewIteration
    /\ \E sv \in SaveOutcomes :
         /\ tasks_file' = save_outline_to_file(outline_root, tasks_file, sv)
         /\ pc' = quit_target(sv)
         /\ trace' = <<IF sv = "ok" THEN "save_ok" ELSE "save_error">>
    /\ UNCHANGED <<fs, outline_root>>

\* any other input: the prompt is built and sent
UserPrompt ==
    /\ NewIteration
    /\ pc' = "chat"
    /\ trace' = <<>>
    /\ UNCHANGED <<fs, outline_root, tasks_file>>

\* response = client.chat(prompt)
Chat ==
    /\ pc = "chat"
    /\ \E r \in ModelResponses : response' = r
    /\ pc' = "parse"
    /\ UNCHANGED <<iter, fs, outline_root, tasks_file, action, old_content,
                   new_content, result, trace>>
    /\ UNCHANGED scan_vars

\* action_type, details = response_handler.parse_response(response)
ParseResponse ==
    /\ pc = "parse"
    /\ action' = parse_response(response)
    /\ pc' = "dispatch"
    /\ UNCHANGED <<iter, fs, outline_root, tasks_file, response, old_content,
                   new_content, result, trace>>
    /\ UNCHANGED scan_vars

\* action_type == "outline": handle_outline adds the tasks, then saves
HandleOutline ==
    /\ pc = "dispatch"
    /\ action.type = "outline"
    /\ outline_root' = add_children(outline_root, action.tasks)
    /\ \E sv \in SaveOutcomes :
         /\ tasks_file' = save_outline_to_file(outline_root', tasks_file, sv)
         /\ result' = IF sv = "ok" THEN "True" ELSE "raised"
         /\ trace' = <<"handle_outline", IF sv = "ok" THEN "save_ok" ELSE "save_error">>
    /\ pc' = "loop"
    /\ UNCHANGED <<iter, fs, response, action, old_content, new_content>>
    /\ UNCHANGED scan_vars

\* action_type == "edit", and handle_edit rejects the path
HandleEditInvalid ==
    /\ pc = "dispatch"
    /\ action.type = "edit"
    /\ InvalidPath(action.filepath)
    /\ new_content' = sanitize_code_content(action.content)
    /\ result' = "False"
    /\ trace' = <<"handle_edit", "invalid_path">>
    /\ pc' = "loop"
    /\ UNCHANGED <<iter, fs, outline_root, tasks_file, response, action, old_content>>
    /\ UNCHANGED scan_vars

ReadOutcomes == {"ok", "error"}

\* action_type == "edit": handle_edit reads the file, shows the diff, and asks
HandleEditPreview ==
    /\ pc = "dispatch"
    /\ action.type = "edit"
    /\ ~InvalidPath(action.filepath)
    /\ new_content' = sanitize_code_content(action.content)
    /\ IF action.filepath \in DOMAIN fs
       THEN \E rd \in ReadOutcomes :
              IF rd = "ok"
              THEN /\ old_content' = fs[action.filepath]
                   /\ trace' = <<"handle_edit", "read">>
                   /\ pc' = "edit_confirm"
                   /\ result' = result
              ELSE /\ old_content' = old_content
                   /\ trace' = <<"handle_edit", "read_error">>
                   /\ pc' = "loop"
                   /\ result' = "raised"
       ELSE /\ old_content' = <<>>
            /\ trace' = <<"handle_edit">>
            /\ pc' = "edit_confirm"
            /\ result' = result
    /\ UNCHANGED <<iter, fs, outline_root, tasks_file, response, action>>
    /\ UNCHANGED scan_vars

\* the edit applied whatever the user answers
handle_edit_confirm_unasked(f, filepath, content, ans, bk, wr) ==
    apply_edit(f, filepath, content, bk, wr)

\* "if user_confirm(...): apply_edit(...) else: skipped"
handle_edit_confirm(f, filepath, content, ans, bk, wr) ==
    IF ans THEN apply_edit(f, filepath, content, bk, wr)
    ELSE [fs |-> f, ret |-> "False", io |-> <<>>]

\* user_confirm("Apply edit to ...?"), then apply_edit
EditConfirm ==
    /\ pc = "edit_confirm"
    /\ \E ans \in BOOLEAN, bk \in BackupOutcomes, wr \in WriteOutcomes :
         LET r == handle_edit_confirm(fs, action.filepath, new_content, ans, bk, wr)
         IN  /\ trace' = Append(trace, IF ans THEN "ask_edit_y" ELSE "ask_edit_n") \o r.io
             /\ result' = r.ret
             /\ fs' = r.fs
    /\ pc' = "loop"
    /\ UNCHANGED <<iter, outline_root, tasks_file, response, action, old_content,
                   new_content>>
    /\ UNCHANGED scan_vars

\* action_type == "run": handle_run screens the command
HandleRunScreen ==
    /\ pc = "dispatch"
    /\ action.type = "run"
    /\ IF IsDangerous(action.command)
       THEN /\ trace' = <<"handle_run", "warning">>
            /\ pc' = "run_danger"
       ELSE /\ trace' = <<"handle_run">>
            /\ pc' = "run_confirm"
    /\ UNCHANGED <<iter, fs, outline_root, tasks_file, response, action,
                   old_content, new_content, result>>
    /\ UNCHANGED scan_vars

\* the answer to the danger prompt ignored
danger_gate_ignored(ans) == "run_confirm"

\* "if not user_confirm(...): return False": where handle_run goes next
danger_gate(ans) == IF ans THEN "run_confirm" ELSE "loop"

\* user_confirm("This command could be destructive. Continue anyway?")
DangerConfirm ==
    /\ pc = "run_danger"
    /\ \E ans \in BOOLEAN :
         /\ trace' = Append(trace, IF ans THEN "ask_danger_y" ELSE "ask_danger_n")
         /\ result' = IF danger_gate(ans) = "loop" THEN "False" ELSE result
         /\ pc' = danger_gate(ans)
    /\ UNCHANGED <<iter, fs, outline_root, tasks_file, response, action,
                   old_content, new_content>>
    /\ UNCHANGED scan_vars

\* what a command that was started may do to the files
ShellEffects(f) == {f} \cup {[q \in DOMAIN f \ {p} |-> f[q]] : p \in DOMAIN f}

\* "if user_confirm(...): return run_shell_command(command)" and "return False"
handle_run_confirm(ans, outcome) ==
    IF ans THEN [ret |-> run_shell_command(outcome), io |-> <<"shell", outcome>>]
    ELSE [ret |-> "False", io |-> <<>>]

\* user_confirm("Run command: ...?"), then run_shell_command
RunConfirm ==
    /\ pc = "run_confirm"
    /\ \E ans \in BOOLEAN, outcome \in ShellOutcomes :
         LET r == handle_run_confirm(ans, outcome)
         IN  /\ trace' = Append(trace, IF ans THEN "ask_run_y" ELSE "ask_run_n") \o r.io
             /\ result' = r.ret
             /\ fs' \in IF r.io = <<>> \/ outcome = "launch_error"
                        THEN {fs} ELSE ShellEffects(fs)
    /\ pc' = "loop"
    /\ UNCHANGED <<iter, outline_root, tasks_file, response, action, old_content,
                   new_content>>
    /\ UNCHANGED scan_vars

\* the else branch: "No actionable section found"
NoAction ==
    /\ pc = "dispatch"
    /\ action.type = "none"
    /\ trace' = <<"no_action">>
    /\ pc' = "loop"
    /\ UNCHANGED <<iter, fs, outline_root, tasks_file, response, action,
                   old_content, new_content, result>>
    /\ UNCHANGED scan_vars

\* Ctrl-C or end of input at a user_confirm prompt: the exception leaves the
\* handler and main_loop continues
Interrupt ==
    /\ pc \in {"edit_confirm", "run_danger", "run_confirm"}
    /\ trace' = Append(trace, "interrupt")
    /\ result' = "raised"
    /\ pc' = "loop"
    /\ UNCHANGED <<iter, fs, outline_root, tasks_file, response, action,
                   old_content, new_content>>
    /\ UNCHANGED scan_vars

Next ==
    \/ UserEmpty
    \/ UserQuit
    \/ UserPrompt
    \/ Chat
    \/ ParseResponse
    \/ HandleOutline
    \/ HandleEditInvalid
    \/ HandleEditPreview
    \/ EditConfirm
    \/ HandleRunScreen
    \/ DangerConfirm
    \/ RunConfirm
    \/ NoAction
    \/ Interrupt

Spec == Init /\ [][Next]_vars

\* one iteration, from the response on, for every response of StepResponses
StepInit ==
    /\ pc = "parse"
    /\ iter = 1
    /\ fs = InitialFs
    /\ tasks_file = MissingFile
    /\ outline_root = load_outline_from_file(tasks_file)
    /\ response \in StepResponses
    /\ action = NoneAction
    /\ old_content = <<>>
    /\ new_content = <<>>
    /\ result = "none"
    /\ trace = <<>>
    /\ tree = EmptyMap
    /\ cache = CodebaseCache
    /\ codebase = EmptyMap
    /\ scan_log = NoScanLog
    /\ last_tree = tree
    /\ spinners = <<>>

StepNext ==
    \/ ParseResponse
    \/ HandleOutline
    \/ HandleEditInvalid
    \/ HandleEditPreview
    \/ EditConfirm
    \/ HandleRunScreen
    \/ DangerConfirm
    \/ RunConfirm
    \/ NoAction
    \/ Interrupt

StepSpec == StepInit /\ [][StepNext]_vars

\* one iteration that handles an edit, for every response of FenceResponses
FenceInit ==
    /\ pc = "parse"
    /\ iter = 1
    /\ fs = InitialFs
    /\ tasks_file = MissingFile
    /\ outline_root = load_outline_from_file(tasks_file)
    /\ response \in FenceResponses
    /\ action = NoneAction
    /\ old_content = <<>>
    /\ new_content = <<>>
    /\ result = "none"
    /\ trace = <<>>
    /\ tree = EmptyMap
    /\ cache = CodebaseCache
    /\ codebase = EmptyMap
    /\ scan_log = NoScanLog
    /\ last_tree = tree
    /\ spinners = <<>>

FenceNext ==
    \/ ParseResponse
    \/ HandleEditPreview
    \/ EditConfirm
    \/ Interrupt

FenceSpec == FenceInit /\ [][FenceNext]_vars

\* print_outline(outline_root) raises before the prompt: "except Exception"
\* reports it and continues with the next iteration
PrintOutlineError ==
    /\ pc = "loop"
    /\ iter < MaxIter
    /\ PrintOutlineRaises(outline_root)
    /\ iter' = iter + 1
    /\ ScanCodebase
    /\ trace' = <<"print_error">>
    /\ UNCHANGED <<pc, fs, outline_root, tasks_file, response, action,
                   old_content, new_content, result>>

\* main_loop from every document of LoadDocuments, the user entering empty
\* lines and quit
LoadInit ==
    /\ pc = "loop"
    /\ iter = 0
    /\ fs = InitialFs
    /\ tasks_file \in LoadDocuments
    /\ outline_root = load_outline_from_file(tasks_file)
    /\ response = <<>>
    /\ action = NoneAction
    /\ old_content = <<>>
    /\ new_content = <<>>
    /\ result = "none"
    /\ trace = <<>>
    /\ tree = EmptyMap
    /\ cache = CodebaseCache
    /\ codebase = EmptyMap
    /\ scan_log = NoScanLog
    /\ last_tree = tree
    /\ spinners = <<>>

LoadNext ==
    \/ UserEmpty
    \/ UserQuit
    \/ PrintOutlineError

LoadSpec == LoadInit /\ [][LoadNext]_vars

\* main_loop in a directory of code files, the user entering empty lines
ScanInit ==
    /\ pc = "loop"
    /\ iter = 0
    /\ fs = InitialFs
    /\ tasks_file = MissingFile
    /\ outline_root = load_outline_from_file(tasks_file)
    /\ response = <<>>
    /\ action = NoneAction
    /\ old_content = <<>>
    /\ new_content = <<>>
    /\ result = "none"
    /\ trace = <<>>
    /\ tree = InitialTree
    /\ cache = CodebaseCache
    /\ codebase = EmptyMap
    /\ scan_log = NoScanLog
    /\ last_tree = tree
    /\ spinners = <<>>

\* between two scans the mtime of a code file is changed, its content kept
TouchFile ==
    /\ pc = "loop"
    /\ \E p \in DOMAIN tree \cap Volatile : \E m \in Mtimes \ {tree[p].mtime} :
         tree' = [tree EXCEPT ![p].mtime = m]
    /\ UNCHANGED <<pc, iter, fs, outline_root, tasks_file, response, action,
                   old_content, new_content, result, trace,
                   cache, codebase, scan_log, last_tree, spinners>>

\* between two scans a code file is rewritten; its mtime may stay the same
\* where the file system's time stamps are coarse
WriteFile ==
    /\ pc = "loop"
    /\ \E p \in DOMAIN tree \cap Volatile :
         \E c \in FileContents \ {tree[p].content}, m \in Mtimes :
            tree' = [tree EXCEPT ![p] = [content |-> c, mtime |-> m]]
    /\ UNCHANGED <<pc, iter, fs, outline_root, tasks_file, response, action,
                   old_content, new_content, result, trace,
                   cache, codebase, scan_log, last_tree, spinners>>

\* between two scans a code file is removed, or renamed to a name that
\* should_scan_file refuses
RemoveFile ==
    /\ pc = "loop"
    /\ \E p \in DOMAIN tree \cap Volatile : tree' = Restrict(tree, DOMAIN tree \ {p})
    /\ UNCHANGED <<pc, iter, fs, outline_root, tasks_file, response, action,
                   old_content, new_content, result, trace,
                   cache, codebase, scan_log, last_tree, spinners>>

\* between two scans a code file appears
CreateFile ==
    /\ pc = "loop"
    /\ \E p \in Volatile \ DOMAIN tree : \E v \in Versions :
         tree' = [q \in DOMAIN tree \cup {p} |-> IF q = p THEN v ELSE tree[q]]
    /\ UNCHANGED <<pc, iter, fs, outline_root, tasks_file, response, action,
                   old_content, new_content, result, trace,
                   cache, codebase, scan_log, last_tree, spinners>>

ScanNext ==
    \/ UserEmpty
    \/ TouchFile
    \/ WriteFile
    \/ RemoveFile
    \/ CreateFile

ScanSpec == ScanInit /\ [][ScanNext]_vars

\* main_loop step by step around the scan, with the spinner threads, the
\* user entering empty lines
SpinInit == ScanInit

\* a spinner thread as threading.Thread.start() leaves it
NewSpinner == [stop |-> FALSE, pc |-> "test"]

\* the spinner threads that have not returned from show_spinner
Alive == {i \in DOMAIN spinners : spinners[i].pc # "done"}

\* "stop_spinner = threading.Event(); spinner_thread = threading.Thread(...);
\* spinner_thread.start()": the names now refer to the newest thread
SpinnerStart ==
    /\ pc = "loop"
    /\ iter < MaxIter
    /\ ~PrintOutlineRaises(outline_root)
    /\ iter' = iter + 1
    /\ spinners' = Append(spinners, NewSpinner)
    /\ pc' = "scanning"
    /\ UNCHANGED <<fs, outline_root, tasks_file, response, action, old_content,
                   new_content, result, trace, tree, cache, codebase, scan_log,
                   last_tree>>

\* scan_codebase returns
ScanReturns ==
    /\ pc = "scanning"
    /\ ScanCodebase
    /\ pc' = "scanned"
    /\ UNCHANGED <<iter, fs, outline_root, tasks_file, response, action, old_content,
                   new_content, result, trace>>

\* how a scan can end without returning: Ctrl-C while it runs, or an
\* exception of the directory walk, which scan_codebase does not catch
ScanAborts == {"KeyboardInterrupt", "Exception"}

\* scan_codebase is left by an exception after it has visited the files S;
\* main_loop's "except KeyboardInterrupt" or "except Exception" prints and
\* continues, codebase is not assigned
ScanAborted ==
    /\ pc = "scanning"
    /\ \E abort \in ScanAborts, S \in SUBSET DOMAIN tree :
         \E io \in ScanIO(cache, Restrict(tree, S)) :
            LET r == scan_codebase(cache, Restrict(tree, S), io)
            IN  /\ cache' = r.cache
                /\ tree' = [q \in (DOMAIN tree \ S) \cup DOMAIN r.tree |->
                              IF q \in DOMAIN r.tree THEN r.tree[q] ELSE tree[q]]
                /\ trace' = <<abort>>
    /\ pc' = "loop"
    /\ UNCHANGED <<iter, fs, outline_root, tasks_file, response, action, old_content,
                   new_content, result, codebase, scan_log, last_tree, spinners>>

\* stop_spinner.set()
StopSpinner ==
    /\ pc = "scanned"
    /\ spinners' = [spinners EXCEPT ![Len(spinners)].stop = TRUE]
    /\ pc' = "joining"
    /\ UNCHANGED <<iter, fs, outline_root, tasks_file, response, action, old_content,
                   new_content, result, trace, tree, cache, codebase, scan_log,
                   last_tree>>

\* spinner_thread.join() returns once the thread has left show_spinner; the
\* results and the outline are printed and the user enters an empty line
JoinSpinner ==
    /\ pc = "joining"
    /\ spinners[Len(spinners)].pc = "done"
    /\ pc' = "loop"
    /\ trace' = <<>>
    /\ UNCHANGED <<iter, fs, outline_root, tasks_file, response, action, old_content,
                   new_content, result, tree, cache, codebase, scan_log, last_tree,
                   spinners>>

\* show_spinner: "while not stop_event.is_set()", then a frame is written;
\* after the loop the final line is written and the thread ends
SpinnerTest ==
    /\ \E i \in DOMAIN spinners :
         /\ spinners[i].pc = "test"
         /\ spinners' = [spinners EXCEPT
                           ![i].pc = IF spinners[i].stop THEN "done" ELSE "sleep"]
    /\ UNCHANGED <<pc, iter, fs, outline_root, tasks_file, response, action,
                   old_content, new_content, result, trace, tree, cache, codebase,
                   scan_log, last_tree>>

\* show_spinner: time.sleep(0.1) returns
SpinnerSleep ==
    /\ \E i \in DOMAIN spinners :
         /\ spinners[i].pc = "sleep"
         /\ spinners' = [spinners EXCEPT ![i].pc = "test"]
    /\ UNCHANGED <<pc, iter, fs, outline_root, tasks_file, response, action,
                   old_content, new_content, result, trace, tree, cache, codebase,
                   scan_log, last_tree>>

SpinNext ==
    \/ SpinnerStart
    \/ ScanReturns
    \/ ScanAborted
    \/ StopSpinner
    \/ JoinSpinner
    \/ SpinnerTest
    \/ SpinnerSleep

SpinSpec == SpinInit /\ [][SpinNext]_vars

\* the main thread goes on whenever it can, and so does every thread that is
\* not blocked: the interpreter switches between runnable threads and
\* time.sleep returns
SpinFairSpec ==
    /\ SpinSpec
    /\ WF_vars(ScanReturns \/ ScanAborted)
    /\ WF_vars(StopSpinner)
    /\ WF_vars(JoinSpinner)
    /\ \A i \in 1..MaxIter :
         WF_vars(/\ i \in DOMAIN spinners
                 /\ spinners[i].pc # "done"
                 /\ (SpinnerTest \/ SpinnerSleep)
                 /\ spinners'[i] # spinners[i])

(***************************************************************************)
(* The claims                                                              *)
(***************************************************************************)

Elems(s) == {s[i] : i \in DOMAIN s}

EditIOEvents ==
    {"read", "read_error", "ask_edit_y", "ask_edit_n", "missing",
     "backup_ok", "backup_error", "write_ok", "write_error", "write_open_error"}

\* C1: an edit applied to a path where a file with content A exists (apply_edit
\* ran there with content B, its copy to .bak and its write succeeding) leaves B
\* in the file and A in <path>.bak.
C1_EditLeavesContentAndBackup ==
    [][(/\ pc = "edit_confirm"
        /\ action.filepath \in DOMAIN fs
        /\ {"backup_ok", "write_ok"} \subseteq Elems(trace'))
       => /\ fs'[action.filepath] = new_content
          /\ fs'[action.filepath \o BakSuffix] = fs[action.filepath]]_vars

C1_Witness ==
    /\ pc = "loop"
    /\ {"backup_ok", "write_ok"} \subseteq Elems(trace)
    /\ fs[action.filepath] = new_content
    /\ fs[action.filepath \o BakSuffix] = old_content
    /\ old_content # new_content

\* a path that is empty, begins with "/", or holds ".."
BadPath(path) ==
    \/ path = <<>>
    \/ path[1] = "/"
    \/ \E i \in 1..(Len(path) - 1) : path[i] = "." /\ path[i + 1] = "."

\* C2: an edit whose path is empty, begins with "/" or holds ".." is rejected by
\* handle_edit in the step that receives it: nothing is read, backed up or
\* written, no confirmation is asked, the files are as before and the handler
\* returns False.
C2_BadPathRejected ==
    [][(pc = "dispatch" /\ action.type = "edit" /\ BadPath(action.filepath))
       => /\ fs' = fs
          /\ result' = "False"
          /\ pc' = "loop"
          /\ Elems(trace') \cap EditIOEvents = {}]_vars

C2_Witness ==
    /\ pc = "loop"
    /\ action.type = "edit"
    /\ action.filepath = PasswdPath
    /\ result = "False"
    /\ fs = InitialFs

\* C3: in every run the files change only in the step that follows a "y" to the
\* edit prompt (or in a started shell command); the preview step of an edit
\* changes neither the files nor the outline, and after an "n" the target and
\* its backup are as before.
C3_EditWritesOnlyAfterConfirm ==
    [][/\ (fs' # fs) =>
            \/ pc = "edit_confirm" /\ "ask_edit_y" \in Elems(trace')
            \/ pc = "run_confirm" /\ "shell" \in Elems(trace')
       /\ (pc = "dispatch" /\ action.type = "edit") =>
            /\ fs' = fs
            /\ outline_root' = outline_root
            /\ tasks_file' = tasks_file
       /\ (pc = "edit_confirm" /\ "ask_edit_y" \notin Elems(trace')) => fs' = fs]_vars

C3_Witness ==
    /\ pc = "loop"
    /\ "ask_edit_n" \in Elems(trace)
    /\ "read" \in Elems(trace)
    /\ fs[action.filepath] = old_content
    /\ new_content # old_content
    /\ action.filepath \o BakSuffix \notin DOMAIN fs

\* C4: a confirmed edit to a valid path at which no file exists creates the file
\* with the sanitized content, attempts no backup and reports success.
C4_EditOnMissingPathCreates ==
    (/\ pc = "loop"
     /\ action.type = "edit"
     /\ "ask_edit_y" \in Elems(trace)
     /\ Elems(trace) \cap {"read", "read_error"} = {})
    => /\ action.filepath \in DOMAIN fs
       /\ fs[action.filepath] = new_content
       /\ result = "True"
       /\ Elems(trace) \cap {"backup_ok", "backup_error"} = {}

\* text holds the lower-case word in some casing
HoldsInSomeCasing(text, word) ==
    \E k \in 0..(Len(text) - Len(word)) :
        \A i \in 1..Len(word) : text[k + i] \in {word[i], UpperChar(word[i])}

\* the command holds a deny-signal in some casing
DenySignal(command) ==
    \E pattern \in dangerous_patterns : HoldsInSomeCasing(command, pattern)

Count(s, S) == Cardinality({i \in DOMAIN s : s[i] \in S})

\* C5: a command with a deny-signal reaches the shell only after two "y"
\* answers, the danger prompt's and the run prompt's; a command without one
\* reaches it after exactly one; an "n" to either prompt, or leaving a prompt,
\* keeps the command from the shell.
C5_ConfirmationsBeforeShell ==
    action.type = "run" =>
        /\ "shell" \in Elems(trace) =>
             /\ "ask_run_y" \in Elems(trace)
             /\ DenySignal(action.command) => "ask_danger_y" \in Elems(trace)
             /\ Count(trace, {"ask_danger_y", "ask_run_y"})
                  = IF DenySignal(action.command) THEN 2 ELSE 1
        /\ Elems(trace) \cap {"ask_danger_n", "ask_run_n", "interrupt"} # {}
             => "shell" \notin Elems(trace)
        /\ ~DenySignal(action.command)
             => Elems(trace) \cap {"ask_danger_y", "ask_danger_n"} = {}

C5_Witness ==
    /\ action.type = "run"
    /\ DenySignal(action.command)
    /\ "shell" \in Elems(trace)
    /\ Count(trace, {"ask_danger_y", "ask_run_y"}) = 2

HasRmRf(command) == HoldsInSomeCasing(command, RmRf)

\* C6: for a command that holds "rm -rf" in any casing, inside any text,
\* handle_run prints its warning and asks the danger confirmation before the
\* run confirmation.
C6_RmRfRaisesDangerGate ==
    (action.type = "run" /\ pc # "dispatch" /\ HasRmRf(action.command)) =>
        /\ Len(trace) >= 2 /\ trace[2] = "warning"
        /\ pc = "run_confirm" => "ask_danger_y" \in Elems(trace)
        /\ \A i \in DOMAIN trace :
             trace[i] \in {"ask_run_y", "ask_run_n"}
                => \E j \in 1..(i - 1) : trace[j] = "ask_danger_y"

C6_Witness ==
    /\ action.type = "run"
    /\ Contains(action.command, <<"R","m"," ","-","r","F">>)
    /\ Len(action.command) > Len(RmRf)
    /\ pc = "run_danger"
    /\ trace = <<"handle_run", "warning">>

\* C7: run_shell_command returns True exactly when the exit code is zero, and
\* returns False both for a non-zero exit code and for a shell that could not
\* be started; the loop goes on in each case.
C7_ShellFailureIsAFalseResult ==
    (action.type = "run" /\ "shell" \in Elems(trace)) =>
        /\ result = "True" <=> trace[Len(trace)] = "exit_0"
        /\ trace[Len(trace)] # "exit_0" => result = "False"
        /\ pc = "loop"

\* the lines the parser scans
ScannedLines(resp) == SplitLines(Strip(resp))

\* the scanned lines that begin with the marker, in any casing
MarkerLines(resp, marker) ==
    LET lines == ScannedLines(resp)
    IN  {i \in DOMAIN lines : StartsWith(Lower(lines[i]), marker)}

NoMarkerLine(resp) ==
    MarkerLines(resp, EditMarker) \cup MarkerLines(resp, RunMarker)
        \cup MarkerLines(resp, OutlineMarker) = {}

\* C8: a response without a line that begins with edit:, run: or outline: is
\* parsed to the None action, and the iteration that handles it ends there:
\* no file or backup is written, nothing is read or run, and the outline is
\* neither changed nor saved.
C8_NoMarkerNoEffect ==
    [][(pc \in {"parse", "dispatch"} /\ NoMarkerLine(response))
       => /\ action' = NoneAction
          /\ pc' = (IF pc = "parse" THEN "dispatch" ELSE "loop")
          /\ fs' = fs
          /\ outline_root' = outline_root
          /\ tasks_file' = tasks_file
          /\ trace' = (IF pc = "parse" THEN <<>> ELSE <<"no_action">>)]_vars

C8_Witness ==
    /\ pc = "loop"
    /\ response = Join(<<L_TaskT, L_H>>, NL)
    /\ action = NoneAction
    /\ trace = <<"no_action">>

Min(S) == CHOOSE i \in S : \A j \in S : i <= j

HandlerEvents == {"handle_outline", "handle_edit", "handle_run"}

\* C9: a parse yields one action, chosen by the priority outline > edit > run
\* among the marker types the response holds, wherever their lines stand; and
\* at most one handler, the one of that action, is entered for a response.
C9_OneActionByPriority ==
    pc # "parse" =>
        LET o == MarkerLines(response, OutlineMarker)
            e == MarkerLines(response, EditMarker)
            r == MarkerLines(response, RunMarker)
        IN  /\ action.type = (IF o # {} THEN "outline"
                              ELSE IF e # {} THEN "edit"
                              ELSE IF r # {} THEN "run" ELSE "none")
            /\ Count(trace, HandlerEvents) <= 1
            /\ pc # "dispatch" =>
                 /\ action.type = "none" => trace = <<"no_action">>
                 /\ action.type = "outline" => trace[1] = "handle_outline"
                 /\ action.type = "edit" => trace[1] = "handle_edit"
                 /\ action.type = "run" => trace[1] = "handle_run"

C9_Witness ==
    /\ pc = "loop"
    /\ MarkerLines(response, RunMarker) # {}
    /\ MarkerLines(response, EditMarker) # {}
    /\ MarkerLines(response, OutlineMarker) # {}
    /\ Min(MarkerLines(response, RunMarker)) < Min(MarkerLines(response, EditMarker))
    /\ Min(MarkerLines(response, EditMarker)) < Min(MarkerLines(response, OutlineMarker))
    /\ action.type = "outline"
    /\ trace[1] = "handle_outline"

\* s without its leading whitespace
StripLeft(s) ==
    IF \A i \in DOMAIN s : s[i] \in Whitespace THEN <<>>
    ELSE SubSeq(s, Min({i \in DOMAIN s : s[i] \notin Whitespace}), Len(s))

\* s without its trailing whitespace
RECURSIVE StripRight(_)
StripRight(s) ==
    IF s # <<>> /\ s[Len(s)] \in Whitespace
    THEN StripRight(SubSeq(s, 1, Len(s) - 1)) ELSE s

\* the lines of the response as it was received (its leading whitespace aside)
ReceivedLines(resp) == SplitLines(StripLeft(resp))

FirstEditLine(resp) ==
    LET lines == ReceivedLines(resp)
    IN  Min({i \in DOMAIN lines : StartsWith(Lower(lines[i]), EditMarker)})

\* every line of the response after its first edit: line, joined with newlines
LinesAfterMarker(resp) ==
    Join(Drop(ReceivedLines(resp), FirstEditLine(resp)), NL)

\* C10 as claimed: the path of an edit action is the remainder of the first edit:
\* line, and its content is every line of the response after that line, joined
\* with newlines, none dropped or altered.
C10_ContentVerbatim ==
    (pc # "parse" /\ action.type = "edit") =>
        /\ action.filepath = Strip(Drop(ReceivedLines(response)[FirstEditLine(response)], 5))
        /\ action.content = LinesAfterMarker(response)

\* C10 as amended: the content is the lines after the first edit: line, joined
\* with newlines, up to the last character that is not whitespace: blank lines
\* ending the response and whitespace ending its last line are dropped, and
\* everything before them is kept as it is.
C10_ContentUpToTrailingWhitespace ==
    (pc # "parse" /\ action.type = "edit") =>
        /\ action.filepath = Strip(Drop(ReceivedLines(response)[FirstEditLine(response)], 5))
        /\ action.content = StripRight(LinesAfterMarker(response))

C10_Witness ==
    /\ pc = "edit_confirm"
    /\ action.type = "edit"
    /\ response = Join(<<L_EditA, L_WSp, L_Blank>>, NL)
    /\ action.filepath = PathA
    /\ action.content = <<" ", "w">>

\* a fence token with an optional language tag, and nothing else
IsFenceMarkerLine(line) ==
    /\ StartsWith(line, Fence)
    /\ \A i \in 4..Len(line) : IsAlpha(line[i])

IsBlankLine(line) == \A i \in DOMAIN line : line[i] \in Whitespace

\* the lines without the blank lines that begin and end them
RECURSIVE TrimBlankLines(_)
TrimBlankLines(lines) ==
    IF lines = <<>> THEN <<>>
    ELSE IF IsBlankLine(lines[1]) THEN TrimBlankLines(Tail(lines))
    ELSE IF IsBlankLine(lines[Len(lines)])
         THEN TrimBlankLines(SubSeq(lines, 1, Len(lines) - 1))
    ELSE lines

\* the content without one leading fence marker line and one trailing fence
\* line, and without the blank lines around what is left
SingleFencePairRemoved(content) ==
    LET lines == SplitLines(content)
        body  == IF lines # <<>> /\ IsFenceMarkerLine(lines[1]) THEN Tail(lines) ELSE lines
        code  == IF body # <<>> /\ body[Len(body)] = Fence
                 THEN SubSeq(body, 1, Len(body) - 1) ELSE body
    IN  Join(TrimBlankLines(code), NL)

\* C11: sanitize_code_content removes one leading fence marker line and one
\* trailing fence line and the blank lines around the rest, and leaves every
\* other line, a fence line in the interior included, as it is.
C11_OnlyOuterFencesRemoved ==
    (pc \in {"edit_confirm", "loop"} /\ action.type = "edit")
        => new_content = SingleFencePairRemoved(action.content)

\* t2 is t1 with the mtime of p changed and nothing else
OnlyMtimeDiffers(t1, t2, p) ==
    /\ DOMAIN t1 = DOMAIN t2
    /\ \A q \in DOMAIN t1 \ {p} : t1[q] = t2[q]
    /\ t1[p].content = t2[p].content
    /\ t1[p].mtime # t2[p].mtime

\* C12: with one CodebaseCache, a scan in which every stat succeeds and that
\* follows a scan whose reads all succeeded and met no concurrent write or
\* removal, with no file changed since that scan, reads no file, takes every
\* entry from the cache (an empty file included) and returns the same
\* mapping; with the mtime of exactly one file changed in between, it reads
\* exactly that file.
C12_UnchangedFilesAreCacheHits ==
    [][(/\ iter' = iter + 1 /\ iter >= 1
        /\ scan_log.failed = {} /\ scan_log.raced = {} /\ scan_log'.nostat = {})
       => /\ (tree = last_tree) =>
               /\ scan_log'.read = {}
               /\ scan_log'.hits = DOMAIN tree
               /\ codebase' = codebase
          /\ \A p \in DOMAIN tree :
               OnlyMtimeDiffers(last_tree, tree, p) => scan_log'.read = {p}]_vars

C12_Witness ==
    /\ iter >= 2
    /\ tree = last_tree
    /\ scan_log.read = {}
    /\ scan_log.hits = ScanPaths
    /\ codebase["x.py"] = <<>>
    /\ codebase["y.py"] = <<"c">>

\* C13: a save followed by a load yields the tree that was saved, title,
\* content and children in order at every level; and saving the loaded tree
\* back to its path, once or again, leaves the persisted tree as it was.
C13_SaveLoadRoundTrip ==
    [][/\ "save_ok" \in Elems(trace')
            => load_outline_from_file(tasks_file') = outline_root'
       /\ (tasks_file.kind = "json" /\ ~FromDictRaises(tasks_file.data))
            => LET t  == load_outline_from_file(tasks_file)
                   f1 == save_outline_to_file(t, tasks_file, "ok")
                   f2 == save_outline_to_file(load_outline_from_file(f1), f1, "ok")
               IN  /\ load_outline_from_file(f1) = t
                   /\ f2 = f1
                   /\ load_outline_from_file(f2) = t]_vars

C13_Witness ==
    /\ pc = "done"
    /\ trace = <<"save_ok">>
    /\ load_outline_from_file(tasks_file) = outline_root
    /\ Len(outline_root.children) >= 3
    /\ outline_root.children[1].children # <<>>
    /\ outline_root.children[2].title # outline_root.children[3].title

\* a node with a title that is a text, a content that is a text where there
\* is one, and children of that shape
RECURSIVE WellShapedNode(_)
WellShapedNode(data) ==
    /\ "title" \in DOMAIN data
    /\ IsStr(data.title)
    /\ "content" \in DOMAIN data => IsStr(data.content)
    /\ \A i \in 1..Len(ChildrenOf(data)) : WellShapedNode(ChildrenOf(data)[i])

WellShaped(file) == file.kind = "json" /\ WellShapedNode(file.data)

\* C14: for a file that is missing, unreadable, not JSON, or JSON of another
\* shape than an outline's, load_outline_from_file returns the default tree:
\* the synthetic root, without children.
C14_LoadFallsBackToDefault ==
    ~WellShaped(tasks_file)
        => load_outline_from_file(tasks_file) = OutlineNode(DefaultRootTitle)

\* what a failed or refused operation leaves in the trace
FailureEvents ==
    {"no_action", "invalid_path", "read_error", "missing", "backup_error",
     "write_error", "write_open_error", "save_error", "exit_nonzero",
     "launch_error", "interrupt"}

\* C15: the loop is left only by a quit whose save succeeded; the step in
\* which a parse finds no action, an edit is rejected or fails, a backup, a
\* write or an outline save fails, a command fails, or the handling of the
\* model client's error message ends, hands control back to the loop, where
\* the next iteration can begin; and within an iteration no read, backup,
\* write, save or command is attempted a second time.
C15_FailuresReturnToLoop ==
    /\ [](/\ (pc = "loop" /\ iter < MaxIter) => ENABLED UserPrompt
          /\ Count(trace, {"read", "read_error"}) <= 1
          /\ Count(trace, {"backup_ok", "backup_error"}) <= 1
          /\ Count(trace, {"write_ok", "write_error", "write_open_error"}) <= 1
          /\ Count(trace, {"save_ok", "save_error"}) <= 1
          /\ Count(trace, {"shell"}) <= 1)
    /\ [][/\ pc' = "done" => (pc = "loop" /\ trace' = <<"save_ok">>)
          /\ (trace' # trace /\ Elems(trace') \cap FailureEvents # {})
               => pc' = "loop"
          /\ (pc = "dispatch" /\ response = L_ChatError)
               => (pc' = "loop" /\ fs' = fs /\ outline_root' = outline_root)]_vars

C15_Witness ==
    /\ tasks_file = CorruptFile
    /\ iter >= 2
    /\ pc = "edit_confirm"

\* C16: after every outline action, a failed save included, the tree that
\* would be loaded from DATA_PATH is the in-memory tree, or the in-memory
\* tree without the batch of tasks that was added last.
C16_PersistedLacksAtMostOneBatch ==
    (pc = "loop" /\ action.type = "outline") =>
        LET persisted == load_outline_from_file(tasks_file)
            batch     == [i \in 1..Len(action.tasks) |-> OutlineNode(action.tasks[i])]
        IN  /\ persisted.title = outline_root.title
            /\ persisted.content = outline_root.content
            /\ \/ persisted.children = outline_root.children
               \/ persisted.children \o batch = outline_root.children

\* the lines of the response whose trimmed form begins with the marker, in
\* any casing
TrimmedMarkerLines(resp, marker) ==
    LET lines == SplitLines(resp)
    IN  {i \in DOMAIN lines : StartsWith(Lower(Strip(lines[i])), marker)}

\* C17: a line is a marker line when its trimmed form begins with edit:, run:
\* or outline: in any casing, leading whitespace notwithstanding; the action
\* is chosen among the marker types of these lines, and the first line of the
\* chosen type gives the path or the command.
C17_MarkerOnTrimmedLine ==
    pc # "parse" =>
        LET lines == SplitLines(response)
            o     == TrimmedMarkerLines(response, OutlineMarker)
            e     == TrimmedMarkerLines(response, EditMarker)
            r     == TrimmedMarkerLines(response, RunMarker)
        IN  /\ action.type = (IF o # {} THEN "outline"
                              ELSE IF e # {} THEN "edit"
                              ELSE IF r # {} THEN "run" ELSE "none")
            /\ action.type = "edit"
                 => action.filepath = Strip(Drop(Strip(lines[Min(e)]), 5))
            /\ action.type = "run"
                 => action.command = Strip(Drop(Strip(lines[Min(r)]), 4))

\* the k-th smallest element of a set of numbers
NthOf(S, k) == CHOOSE i \in S : Cardinality({j \in S : j <= i}) = k

BackupEvents == {"backup_ok", "backup_error"}

WriteEvents == {"write_ok", "write_error", "write_open_error"}

\* C19: in apply_edit the copy to <path>.bak is attempted before the write
\* and a copy that succeeds holds the content from before the write; when
\* the copy fails, the write is attempted all the same, and when that write
\* succeeds the target holds the new content and the edit returns True.
C19_BackupFailureDoesNotBlockWrite ==
    [][pc = "edit_confirm"
       => /\ \A i, j \in DOMAIN trace' :
               (trace'[i] \in BackupEvents /\ trace'[j] \in WriteEvents) => i < j
          /\ Count(trace', WriteEvents) = Count(trace', BackupEvents)
          /\ "backup_ok" \in Elems(trace')
               => fs'[action.filepath \o BakSuffix] = fs[action.filepath]
          /\ "backup_error" \in Elems(trace')
               => Count(trace', WriteEvents) = 1
          /\ {"backup_error", "write_ok"} \subseteq Elems(trace')
               => /\ fs'[action.filepath] = new_content
                  /\ result' = "True"]_vars

C19_Witness ==
    /\ pc = "loop"
    /\ {"backup_error", "write_ok"} \subseteq Elems(trace)
    /\ result = "True"
    /\ fs[action.filepath] = new_content
    /\ new_content # old_content
    /\ action.filepath \o BakSuffix \notin DOMAIN fs

\* the files other than path whose name begins with path
BackupsOf(f, path) == {q \in DOMAIN f : q # path /\ StartsWith(q, path)}

\* C20: each applied edit whose copy succeeds leaves in <path>.bak the
\* content the file had just before that edit, whatever an earlier edit had
\* left there, and creates no file besides <path>.bak; at no time does a path
\* have another backup file than <path>.bak.
C20_BackupIsSingleSlot ==
    /\ [](\A path \in DOMAIN fs : BackupsOf(fs, path) \subseteq {path \o BakSuffix})
    /\ [][(pc = "edit_confirm" /\ {"backup_ok", "write_ok"} \subseteq Elems(trace'))
          => /\ fs'[action.filepath \o BakSuffix] = fs[action.filepath]
             /\ BackupsOf(fs', action.filepath) = {action.filepath \o BakSuffix}
             /\ DOMAIN fs' = DOMAIN fs \cup {action.filepath \o BakSuffix}]_vars

C20_Witness ==
    /\ pc = "loop"
    /\ {"backup_ok", "write_ok"} \subseteq Elems(trace)
    /\ DOMAIN fs = {PathA, PathA \o BakSuffix}
    /\ fs[PathA \o BakSuffix] # InitialFs[PathA]
    /\ fs[PathA \o BakSuffix] = old_content
    /\ fs[PathA] = new_content
    /\ new_content # old_content

\* the entry the cache holds for p: its content and its mtime, where stored
EntryOf(c, p) ==
    [content |-> IF p \in DOMAIN c.cache THEN <<c.cache[p]>> ELSE <<>>,
     mtime   |-> IF p \in DOMAIN c.mtimes THEN <<c.mtimes[p]>> ELSE <<>>]

\* this step is a scan
ScanStep == iter' = iter + 1

\* the stored content of p is reused by this scan, and its entry kept
Reused(p) ==
    /\ p \in scan_log'.hits
    /\ p \in DOMAIN cache.cache /\ codebase'[p] = cache.cache[p]
    /\ EntryOf(cache', p) = EntryOf(cache, p)

\* a stat of p by this scan succeeded and found the stored mtime
StoredMtimeIsCurrent(p) ==
    /\ p \notin scan_log'.nostat
    /\ p \in DOMAIN cache.mtimes /\ cache.mtimes[p] = tree[p].mtime

\* C21 as stated: a scan reuses the stored content of a path if and only if
\* the stored mtime equals the on-disk mtime, and otherwise reads the file
\* and leaves its content and an mtime of the file in the cache entry.
C21_MissOverwritesEntry ==
    [][ScanStep => \A p \in DOMAIN tree :
          /\ Reused(p) <=> StoredMtimeIsCurrent(p)
          /\ ~StoredMtimeIsCurrent(p) =>
                /\ p \in scan_log'.read
                /\ EntryOf(cache', p).content = <<tree[p].content>>
                /\ \/ EntryOf(cache', p).mtime = <<tree[p].mtime>>
                   \/ p \in DOMAIN tree' /\ EntryOf(cache', p).mtime = <<tree'[p].mtime>>]_vars

\* C21: a scan reuses the stored content of a path if and only if a stat of
\* the file succeeds and finds the stored mtime; otherwise it reads the
\* file; a read that succeeds puts the content read in the snapshot and in
\* the cache entry, and the entry's mtime becomes the file's at the stat
\* that follows the read, or stays as it was when the file is gone by then;
\* a read that fails leaves the entry as it was and the path out of the
\* snapshot.
C21_MissOverwritesEntryOnSuccess ==
    [][ScanStep => \A p \in DOMAIN tree :
          /\ Reused(p) <=> StoredMtimeIsCurrent(p)
          /\ ~StoredMtimeIsCurrent(p) =>
                /\ p \in scan_log'.read
                /\ p \notin scan_log'.failed =>
                      /\ codebase'[p] = tree[p].content
                      /\ EntryOf(cache', p).content = <<tree[p].content>>
                      /\ EntryOf(cache', p).mtime =
                            IF p \in DOMAIN tree' THEN <<tree'[p].mtime>>
                            ELSE EntryOf(cache, p).mtime
                /\ p \in scan_log'.failed =>
                      /\ p \notin DOMAIN codebase'
                      /\ EntryOf(cache', p) = EntryOf(cache, p)]_vars

\* a scan has met a failing stat of x.py, whose stored mtime was the file's,
\* has read the file and stored what it read, and has reused y.py
C21_Witness ==
    /\ iter >= 2
    /\ "x.py" \in scan_log.nostat
    /\ "x.py" \in scan_log.read \ scan_log.failed
    /\ "y.py" \in scan_log.hits
    /\ "x.py" \in DOMAIN tree
    /\ EntryOf(cache, "x.py") =
         [content |-> <<tree["x.py"].content>>, mtime |-> <<tree["x.py"].mtime>>]

\* C22: every scan returns, for each path in its snapshot, the content the
\* file had when the scan started, and leaves no cache entry that holds a
\* file's current mtime beside a content that is not its current content.
C22_StalenessBoundedByOneScan ==
    [][ScanStep =>
         /\ \A p \in DOMAIN tree \cap DOMAIN codebase' :
               codebase'[p] = tree[p].content
         /\ \A p \in DOMAIN tree' \cap DOMAIN cache'.mtimes :
               cache'.mtimes[p] = tree'[p].mtime => cache'.cache[p] = tree'[p].content]_vars

\* C23: no step removes a path from the cache or from its mtimes, whatever
\* happens to the file, and the mapping a scan returns holds exactly the
\* files that scan has visited and either reused or read with success.
C23_CacheOnlyGrows ==
    [][/\ DOMAIN cache.cache \subseteq DOMAIN cache'.cache
       /\ DOMAIN cache.mtimes \subseteq DOMAIN cache'.mtimes
       /\ ScanStep =>
             /\ DOMAIN codebase' = scan_log'.hits \cup (scan_log'.read \ scan_log'.failed)
             /\ DOMAIN codebase' \subseteq DOMAIN tree]_vars

\* x.py was read and cached by one scan and removed before the next one,
\* whose snapshot lacks it while the cache still holds its entry
C23_Witness ==
    /\ iter >= 2
    /\ scan_log.raced = {}
    /\ "x.py" \notin DOMAIN tree
    /\ "x.py" \notin DOMAIN codebase
    /\ "x.py" \in DOMAIN cache.cache \cap DOMAIN cache.mtimes
    /\ "y.py" \in DOMAIN codebase

\* C24: every step leaves the root's title and content as they are and its
\* former children list as a prefix of the new one, each former child with
\* its whole subtree; what a step appends are new leaves, one for each task
\* in order, so no node gets a descendant that existed before.
C24_OutlineIsAppendOnly ==
    [][/\ outline_root'.title = outline_root.title
       /\ outline_root'.content = outline_root.content
       /\ Len(outline_root'.children) >= Len(outline_root.children)
       /\ SubSeq(outline_root'.children, 1, Len(outline_root.children))
             = outline_root.children
       /\ \A i \in (Len(outline_root.children) + 1)..Len(outline_root'.children) :
             /\ outline_root'.children[i].children = <<>>
             /\ outline_root'.children[i].title
                   = action.tasks[i - Len(outline_root.children)]]_vars

\* an outline action has added tasks to a root that had children already
C24_Witness ==
    /\ pc = "loop"
    /\ Len(trace) >= 1 /\ trace[1] = "handle_outline"
    /\ action.type = "outline" /\ Len(action.tasks) >= 1
    /\ Len(outline_root.children) > Len(action.tasks)
    /\ outline_root.children[1].title # action.tasks[1]

\* every node of the tree has a non-empty title
RECURSIVE TitlesNonEmpty(_)
TitlesNonEmpty(node) ==
    /\ node.title # <<>>
    /\ \A i \in DOMAIN node.children : TitlesNonEmpty(node.children[i])

\* C25: in every reachable state every node of the outline has a non-empty
\* title, whatever the model has answered.
C25_TitlesAreNonEmpty == TitlesNonEmpty(outline_root)

\* C26: at no time two spinner threads are alive, and every spinner thread
\* that has been started ends, however the scan of its iteration has ended.
C26_SpinnerStoppedAndJoined ==
    /\ [](Cardinality(Alive) <= 1)
    /\ \A i \in 1..MaxIter :
         [](i \in DOMAIN spinners => <>(i \in DOMAIN spinners /\ spinners[i].pc = "done"))

\* the step of an iteration in which the user enters quit, exit or q
QuitStep == pc = "loop" /\ iter' = iter + 1 /\ trace' \in {<<"save_ok">>, <<"save_error">>}

\* C27: the step that handles quit, exit or q leaves the loop, whether the
\* save of the outline succeeds or fails, and a save that succeeds leaves
\* the serialized outline at DATA_PATH.
C27_QuitLeavesTheLoop ==
    [][QuitStep =>
         /\ pc' = "done"
         /\ trace' = <<"save_ok">> => tasks_file' = JsonFile(to_dict(outline_root))]_vars

\* the response of this iteration is what OllamaClient.chat returns when the
\* request has failed
ChatFailed == StartsWith(response, chat_error(<<>>))

\* C28: when the model client has failed, the step that follows the parse
\* reports that there is no action and returns to the loop, with the files,
\* the backups, the outline and its file as they were, whatever the text of
\* the error is.
C28_ClientFailureOnlyReported ==
    [][(pc = "dispatch" /\ ChatFailed) =>
         /\ pc' = "loop"
         /\ trace' = <<"no_action">>
         /\ fs' = fs
         /\ outline_root' = outline_root
         /\ tasks_file' = tasks_file]_vars

====
